---- MODULE Spec2Model ----
(***************************************************************************)
(* State-machine model of moto's ServiceCatalogBackend                     *)
(* (src/moto/servicecatalog/models.py): the portfolio registry with its    *)
(* three dictionaries and the six operations on them.                      *)
(*                                                                         *)
(* Python values are modelled as follows.                                  *)
(*   Optional[T]   None is <<>>, a present value v is <<v>>                *)
(*   str           a TLA+ string, concatenated with \o                     *)
(*   list          a sequence                                              *)
(*   dict          a function whose DOMAIN is the key set; the portfolio   *)
(*                 dict, whose iteration order is observable, is a         *)
(*                 sequence of Portfolio records in insertion order        *)
(***************************************************************************)
EXTENDS Integers, Sequences, FiniteSets, TLC

VARIABLES
    portfolios,          \* self.portfolios: insertion-ordered dict id -> Portfolio
    portfolio_access,    \* self.portfolio_access: dict id -> list of account ids
    idempotency_tokens,  \* self.idempotency_tokens: dict token -> portfolio id
    issued,              \* how many values uuid.uuid4() has returned
    clock,               \* how many values datetime.now() has returned
    call,                \* the operation called last, with its arguments
    result,              \* what that call returned or raised
    first_response,      \* token -> the response of the call that recorded it
    walk,                \* pagination walk: the records collected page by page
    before,              \* SpecShare: the three dicts as they were before the call
    callers              \* SpecThreads: the calls in progress, one per thread

vars == <<portfolios, portfolio_access, idempotency_tokens, issued, clock,
          call, result, first_response, walk, before, callers>>

registry == <<portfolios, portfolio_access, idempotency_tokens>>

----------------------------------------------------------------------------
(* Bounds *)

MaxPortfolios == 2      \* how many portfolios a behaviour of Spec creates
MaxAccounts == 3        \* how many account ids SpecShare grants and revokes
MaxGrants == 22         \* the longest access list SpecPaging pages through

----------------------------------------------------------------------------
(* Python values *)

None == <<>>

Some(v) == <<v>>

\* Python truthiness of an Optional[str]: None and "" are falsy.
TruthyStr(opt) == opt # None /\ opt[1] # ""

\* Python truthiness of an Optional[dict]: None and {} are falsy.
TruthyDict(opt) == opt # None /\ DOMAIN opt[1] # {}

\* d[k] = v
DictSet(d, k, v) == [x \in (DOMAIN d) \cup {k} |-> IF x = k THEN v ELSE d[x]]

\* del d[k]
DictDel(d, k) == [x \in (DOMAIN d) \ {k} |-> d[x]]

\* d.get(k, default)
DictGet(d, k, default) == IF k \in DOMAIN d THEN d[k] ELSE default

\* x in lst
InList(x, lst) == \E i \in 1..Len(lst) : lst[i] = x

\* mutation: del lst[0] in place of lst.remove(x)
ListRemoveHead(lst, x) == Tail(lst)

\* mutation: lst.pop() in place of lst.remove(x)
ListRemovePop(lst, x) == SubSeq(lst, 1, Len(lst) - 1)

\* lst.remove(x): removes the first occurrence of x
RECURSIVE ListRemove(_, _)
ListRemove(lst, x) ==
    IF lst = <<>> THEN <<>>
    ELSE IF Head(lst) = x THEN Tail(lst)
    ELSE <<Head(lst)>> \o ListRemove(Tail(lst), x)

----------------------------------------------------------------------------
(* Input domains *)

\* the i-th value of uuid.uuid4(): ids are named in the order of their issue
IdOf(i) == "p" \o ToString(i)

Ids == {IdOf(i) : i \in 1..MaxPortfolios}

TokenArgs == {None, Some(""), Some("tok")}

\* a 12-digit account id
AccountId(i) ==
    IF i < 10 THEN "10000000000" \o ToString(i) ELSE "1000000000" \o ToString(i)

Accounts == {"111111111111", "222222222222"}

AccountArgs == {None, Some("")} \cup {Some(a) : a \in Accounts}

\* display_name, description, provider_name and tags of a create_portfolio call
CreateArgs ==
    {[display_name |-> "dn1", description |-> None,
      provider_name |-> "prov", tags |-> None],
     [display_name |-> "dn2", description |-> Some("desc"),
      provider_name |-> "prov",
      tags |-> Some(<<[Key |-> "k", Value |-> "v"]>>)]}

OrgNode == [Type |-> "ORGANIZATION", Value |-> "o-1"]

OrgNodeArgs == {None, Some(<<>>), Some([Type |-> "ACCOUNT"]), Some(OrgNode)}

RegionName == "us-east-1"

BackendAccountId == "123456789012"

PageSizeArgs == {None, Some(1)}

----------------------------------------------------------------------------
(* Portfolio *)

\* moto.utilities.utils.get_partition
get_partition(region_name) == "aws"

\* Portfolio.__init__
Portfolio(portfolio_id, display_name, description, provider_name, tags, created_time) ==
    [id |-> portfolio_id,
     display_name |-> display_name,
     description |-> description,
     provider_name |-> provider_name,
     created_time |-> created_time,
     tags |-> tags,
     region_name |-> RegionName,
     account_id |-> BackendAccountId]

\* Portfolio.arn
arn(p) ==
    "arn:" \o get_partition(p.region_name) \o ":catalog:" \o p.region_name
        \o ":" \o p.account_id \o ":portfolio/" \o p.id

\* datetime.isoformat
isoformat(t) == "2024-01-01T00:00:0" \o ToString(t)

\* Portfolio.to_dict
to_dict(p) ==
    [Id |-> p.id,
     ARN |-> arn(p),
     DisplayName |-> p.display_name,
     Description |-> p.description,
     CreatedTime |-> isoformat(p.created_time),
     ProviderName |-> p.provider_name]

----------------------------------------------------------------------------
(* The portfolio dict: a sequence of Portfolio records in insertion order *)

\* the keys of self.portfolios
PortfolioIds(ps) == {ps[i].id : i \in 1..Len(ps)}

\* self.portfolios[portfolio_id], defined for a key of the dict
PortfolioAt(ps, portfolio_id) ==
    ps[CHOOSE i \in 1..Len(ps) : ps[i].id = portfolio_id]

\* self.portfolios[portfolio_id] = portfolio: a new key goes last, an
\* existing key keeps its position
PortfolioPut(ps, portfolio) ==
    IF portfolio.id \in PortfolioIds(ps)
    THEN [i \in 1..Len(ps) |->
             IF ps[i].id = portfolio.id THEN portfolio ELSE ps[i]]
    ELSE Append(ps, portfolio)

\* mutation: the oldest portfolio is removed, whatever the key
PortfolioDelFirst(ps, portfolio_id) == Tail(ps)

\* del self.portfolios[id]
PortfolioDel(ps, portfolio_id) ==
    LET keep(p) == p.id # portfolio_id IN SelectSeq(ps, keep)

----------------------------------------------------------------------------
(* Results of a call *)

Return(v) == [status |-> "return", value |-> v]

Raise(e) == [status |-> "raise", value |-> e]

NoWalk == [active |-> FALSE]

\* no thread is in a call
NoCallers == <<>>

\* one call after the other: a call runs from its first line to its return
\* with no other call in between
OneCaller == UNCHANGED <<before, callers>>

\* as OneCaller, and the dicts before the call are remembered
OneCallerRecorded == before' = registry /\ UNCHANGED callers

\* `opt or default` for an Optional[str]
OrStr(opt, default) == IF TruthyStr(opt) THEN opt[1] ELSE default

\* `opt or default` for an Optional[list]
OrList(opt, default) == IF opt # None /\ opt[1] # <<>> THEN opt[1] ELSE default

----------------------------------------------------------------------------
(* ServiceCatalogBackend.__init__ *)

Init ==
    /\ portfolios = <<>>
    /\ portfolio_access = <<>>
    /\ idempotency_tokens = <<>>
    /\ issued = 0
    /\ clock = 0
    /\ call = [op |-> "__init__"]
    /\ result = Return(None)
    /\ first_response = <<>>
    /\ walk = NoWalk
    /\ before = registry
    /\ callers = NoCallers

----------------------------------------------------------------------------
(* create_portfolio *)

\* mutation: the id is not random, every portfolio gets the same one
uuid4_fixed == IdOf(1)

\* uuid.uuid4(): a value it has not returned before
uuid4 == IdOf(issued + 1)

\* datetime.now(): a later time at every call
now == clock

\* mutation: the token is looked up in the portfolio dict
TokenSeenWrongDict(idempotency_token) ==
    TruthyStr(idempotency_token)
        /\ idempotency_token[1] \in PortfolioIds(portfolios)

\* the guard of the replay branch
TokenSeen(idempotency_token) ==
    TruthyStr(idempotency_token)
        /\ idempotency_token[1] \in DOMAIN idempotency_tokens

\* the replay branch: look the recorded portfolio up and return it
create_portfolio_replay(idempotency_token) ==
    LET portfolio_id == idempotency_tokens[idempotency_token[1]] IN
    /\ result' =
           IF portfolio_id \in PortfolioIds(portfolios)
           THEN LET portfolio == PortfolioAt(portfolios, portfolio_id)
                IN Return(<<to_dict(portfolio), portfolio.tags>>)
           ELSE Raise("KeyError")
    /\ UNCHANGED <<registry, issued, clock, first_response>>

\* the creating branch
create_portfolio_fresh(display_name, description, provider_name, tags, idempotency_token) ==
    /\ issued < MaxPortfolios
    /\  LET portfolio_id == uuid4
            created_time == now
            portfolio == Portfolio(portfolio_id, display_name,
                                   OrStr(description, ""), provider_name,
                                   OrList(tags, <<>>), created_time)
            response == <<to_dict(portfolio), portfolio.tags>>
        IN
        /\ issued' = issued + 1
        /\ clock' = clock + 1
        /\ portfolios' = PortfolioPut(portfolios, portfolio)
        /\ idempotency_tokens' =
               IF TruthyStr(idempotency_token)
               THEN DictSet(idempotency_tokens, idempotency_token[1],
                            portfolio_id)
               ELSE idempotency_tokens
        /\ portfolio_access' = DictSet(portfolio_access, portfolio_id, <<>>)
        /\ first_response' =
               IF TruthyStr(idempotency_token)
               THEN DictSet(first_response, idempotency_token[1], response)
               ELSE first_response
        /\ result' = Return(response)

\* mutation: a replayed call overwrites the recorded portfolio with its own
\* attributes
create_portfolio_upsert(display_name, description, provider_name, tags, idempotency_token) ==
    /\ call' = [op |-> "create_portfolio",
                display_name |-> display_name,
                description |-> description,
                provider_name |-> provider_name,
                tags |-> tags,
                idempotency_token |-> idempotency_token]
    /\ walk' = NoWalk
    /\ IF TokenSeen(idempotency_token)
       THEN LET portfolio_id == idempotency_tokens[idempotency_token[1]]
                portfolio == Portfolio(portfolio_id, display_name,
                                       OrStr(description, ""), provider_name,
                                       OrList(tags, <<>>), now)
            IN /\ portfolio_id \in PortfolioIds(portfolios)
               /\ portfolios' = PortfolioPut(portfolios, portfolio)
               /\ result' = Return(<<to_dict(portfolio), portfolio.tags>>)
               /\ UNCHANGED <<portfolio_access, idempotency_tokens, issued,
                              clock, first_response>>
       ELSE create_portfolio_fresh(display_name, description, provider_name,
                                   tags, idempotency_token)

create_portfolio(display_name, description, provider_name, tags, idempotency_token) ==
    /\ call' = [op |-> "create_portfolio",
                display_name |-> display_name,
                description |-> description,
                provider_name |-> provider_name,
                tags |-> tags,
                idempotency_token |-> idempotency_token]
    /\ walk' = NoWalk
    /\ IF TokenSeen(idempotency_token)
       THEN create_portfolio_replay(idempotency_token)
       ELSE create_portfolio_fresh(display_name, description, provider_name,
                                   tags, idempotency_token)

----------------------------------------------------------------------------
(* delete_portfolio *)

\* mutation: only the access list is removed
delete_portfolio_keeps_portfolio(id) ==
    /\ call' = [op |-> "delete_portfolio", id |-> id]
    /\ walk' = NoWalk
    /\ portfolio_access' =
           IF id \in DOMAIN portfolio_access
           THEN DictDel(portfolio_access, id)
           ELSE portfolio_access
    /\ result' = Return(None)
    /\ UNCHANGED <<portfolios, idempotency_tokens, issued, clock,
                   first_response>>

delete_portfolio(id) ==
    /\ call' = [op |-> "delete_portfolio", id |-> id]
    /\ walk' = NoWalk
    /\ portfolio_access' =
           IF id \in DOMAIN portfolio_access
           THEN DictDel(portfolio_access, id)
           ELSE portfolio_access
    /\ portfolios' =
           IF id \in PortfolioIds(portfolios)
           THEN PortfolioDel(portfolios, id)
           ELSE portfolios
    /\ result' = Return(None)
    /\ UNCHANGED <<idempotency_tokens, issued, clock, first_response>>

----------------------------------------------------------------------------
(* delete_portfolio_share *)

\* f"share-{portfolio_id}-{organization_node.get('Type', '')}-
\*   {organization_node.get('Value', '')}"
ShareToken(portfolio_id, organization_node) ==
    "share-" \o portfolio_id \o "-" \o DictGet(organization_node, "Type", "")
        \o "-" \o DictGet(organization_node, "Value", "")

delete_portfolio_share(portfolio_id, account_id, organization_node) ==
    /\ call' = [op |-> "delete_portfolio_share",
                portfolio_id |-> portfolio_id,
                account_id |-> account_id,
                organization_node |-> organization_node]
    /\ walk' = NoWalk
    /\ portfolio_access' =
           IF /\ TruthyStr(account_id)
              /\ portfolio_id \in DOMAIN portfolio_access
              /\ InList(account_id[1], portfolio_access[portfolio_id])
           THEN DictSet(portfolio_access, portfolio_id,
                        ListRemove(portfolio_access[portfolio_id],
                                   account_id[1]))
           ELSE portfolio_access
    /\ result' =
           Return(IF TruthyDict(organization_node)
                  THEN Some(ShareToken(portfolio_id, organization_node[1]))
                  ELSE None)
    /\ UNCHANGED <<portfolios, idempotency_tokens, issued, clock,
                   first_response>>

----------------------------------------------------------------------------
(* create_portfolio_share *)

\* mutation: the account is appended without the membership test
GrantAccessAppend(access, portfolio_id, account_id) ==
    DictSet(access, portfolio_id,
            Append(DictGet(access, portfolio_id, <<>>), account_id))

\* the account branch: the access list after the grant
GrantAccess(access, portfolio_id, account_id) ==
    LET ensured == IF portfolio_id \notin DOMAIN access
                   THEN DictSet(access, portfolio_id, <<>>)
                   ELSE access
    IN IF ~InList(account_id, ensured[portfolio_id])
       THEN DictSet(ensured, portfolio_id,
                    Append(ensured[portfolio_id], account_id))
       ELSE ensured

\* mutation: the two suffixes are appended in the other order
CreateShareTokenSwapped(portfolio_id, organization_node, share_tag_options, share_principals) ==
    "share-" \o portfolio_id \o "-" \o DictGet(organization_node, "Type", "")
        \o "-" \o DictGet(organization_node, "Value", "")
        \o (IF share_principals THEN "-principals" ELSE "")
        \o (IF share_tag_options THEN "-tags" ELSE "")

\* the organization branch: the token with its flag suffixes
CreateShareToken(portfolio_id, organization_node, share_tag_options, share_principals) ==
    ShareToken(portfolio_id, organization_node)
        \o (IF share_tag_options THEN "-tags" ELSE "")
        \o (IF share_principals THEN "-principals" ELSE "")

\* mutation: the test for an unknown portfolio is missing
PortfolioKnownAlways(portfolio_id) == TRUE

\* portfolio_id in self.portfolios
PortfolioKnown(portfolio_id) == portfolio_id \in PortfolioIds(portfolios)

create_portfolio_share(portfolio_id, account_id, organization_node, share_tag_options, share_principals) ==
    /\ call' = [op |-> "create_portfolio_share",
                portfolio_id |-> portfolio_id,
                account_id |-> account_id,
                organization_node |-> organization_node,
                share_tag_options |-> share_tag_options,
                share_principals |-> share_principals]
    /\ walk' = NoWalk
    /\ IF ~PortfolioKnown(portfolio_id)
       THEN /\ result' = Return(None)
            /\ UNCHANGED portfolio_access
       ELSE IF TruthyStr(account_id)
       THEN /\ portfolio_access' =
                   GrantAccess(portfolio_access, portfolio_id, account_id[1])
            /\ result' = Return(None)
       ELSE /\ result' =
                   Return(IF TruthyDict(organization_node)
                          THEN Some(CreateShareToken(portfolio_id,
                                                     organization_node[1],
                                                     share_tag_options,
                                                     share_principals))
                          ELSE None)
            /\ UNCHANGED portfolio_access
    /\ UNCHANGED <<portfolios, idempotency_tokens, issued, clock,
                   first_response>>

----------------------------------------------------------------------------
(* list_portfolio_access, wrapped by @paginate *)

\* PAGINATION_MODEL["list_portfolio_access"]["limit_default"]
LimitDefault == 20

\* mutation: the records are listed last grant first
AccessRecordsReversed(portfolio_id) ==
    LET account_ids == DictGet(portfolio_access, portfolio_id, <<>>)
        n == Len(account_ids)
    IN [i \in 1..n |-> [account_id |-> account_ids[n + 1 - i]]]

\* the undecorated body: one record per account of the access list
AccessRecords(portfolio_id) ==
    LET account_ids == DictGet(portfolio_access, portfolio_id, <<>>)
    IN [i \in 1..Len(account_ids) |-> [account_id |-> account_ids[i]]]

\* moto.utilities.paginator.paginate: the page that starts at the record the
\* token names (the first record without a token), limited to page_size
\* records, and the token of the record after the page when there is one.
\* The token of a record is its unique attribute, account_id.
Paginate(records, page_token, page_size) ==
    LET limit == IF page_size = None THEN LimitDefault ELSE page_size[1]
        matches == {i \in 1..Len(records) :
                       page_token # None
                           /\ records[i].account_id = page_token[1]}
        start == IF page_token = None THEN 1
                 ELSE IF matches = {} THEN Len(records) + 1
                 ELSE CHOOSE i \in matches : \A j \in matches : i <= j
        last == IF start + limit - 1 < Len(records)
                THEN start + limit - 1 ELSE Len(records)
    IN <<SubSeq(records, start, last),
         IF last < Len(records)
         THEN Some(records[last + 1].account_id) ELSE None>>

list_portfolio_access(portfolio_id, page_token, page_size) ==
    LET page == Paginate(AccessRecords(portfolio_id), page_token, page_size)
        continues == /\ walk.active
                     /\ page_token # None
                     /\ walk.portfolio_id = portfolio_id
                     /\ result.value[2] = page_token
    IN
    /\ call' = [op |-> "list_portfolio_access",
                portfolio_id |-> portfolio_id,
                page_token |-> page_token,
                page_size |-> page_size]
    /\ result' = Return(page)
    /\ walk' = IF page_token = None
               THEN [active |-> TRUE, portfolio_id |-> portfolio_id,
                     records |-> page[1]]
               ELSE IF continues
               THEN [walk EXCEPT !.records = @ \o page[1]]
               ELSE NoWalk
    /\ UNCHANGED <<registry, issued, clock, first_response>>

----------------------------------------------------------------------------
(* list_portfolios *)

\* mutation: the page_size is honoured, the list is cut to it
list_portfolios_cut(page_token, page_size) ==
    LET n == IF page_size = None \/ page_size[1] > Len(portfolios)
             THEN Len(portfolios) ELSE page_size[1]
    IN
    /\ call' = [op |-> "list_portfolios",
                page_token |-> page_token,
                page_size |-> page_size]
    /\ walk' = NoWalk
    /\ result' = Return(<<[i \in 1..n |-> to_dict(portfolios[i])], None>>)
    /\ UNCHANGED <<registry, issued, clock, first_response>>

list_portfolios(page_token, page_size) ==
    /\ call' = [op |-> "list_portfolios",
                page_token |-> page_token,
                page_size |-> page_size]
    /\ walk' = NoWalk
    /\ result' = Return(<<[i \in 1..Len(portfolios) |-> to_dict(portfolios[i])],
                          None>>)
    /\ UNCHANGED <<registry, issued, clock, first_response>>

----------------------------------------------------------------------------
(* The registry under any sequence of calls *)

CreatePortfolio ==
    \E args \in CreateArgs, idempotency_token \in TokenArgs :
        create_portfolio(args.display_name, args.description,
                         args.provider_name, args.tags, idempotency_token) /\ OneCaller

DeletePortfolio == \E id \in Ids : delete_portfolio(id) /\ OneCaller

\* account_id and organization_node of the share calls
ShareArgs ==
    {[account_id |-> a, organization_node |-> None] : a \in AccountArgs}
        \cup {[account_id |-> None, organization_node |-> Some(OrgNode)]}

DeletePortfolioShare ==
    \E portfolio_id \in Ids, args \in ShareArgs :
        delete_portfolio_share(portfolio_id, args.account_id,
                               args.organization_node) /\ OneCaller

CreatePortfolioShare ==
    \E portfolio_id \in Ids, args \in ShareArgs :
        create_portfolio_share(portfolio_id, args.account_id,
                               args.organization_node, TRUE, FALSE) /\ OneCaller

\* page_token and page_size of the list calls
PageArgs ==
    {[page_token |-> None, page_size |-> n] : n \in PageSizeArgs}
        \cup {[page_token |-> Some(a), page_size |-> Some(1)] : a \in Accounts}

ListPortfolioAccess ==
    \E portfolio_id \in Ids, args \in PageArgs :
        list_portfolio_access(portfolio_id, args.page_token, args.page_size) /\ OneCaller

ListPortfolios ==
    \E args \in {[page_token |-> None, page_size |-> None],
                  [page_token |-> Some("111111111111"), page_size |-> Some(1)]} :
        list_portfolios(args.page_token, args.page_size) /\ OneCaller

Next ==
    \/ CreatePortfolio
    \/ DeletePortfolio
    \/ DeletePortfolioShare
    \/ CreatePortfolioShare
    \/ ListPortfolioAccess
    \/ ListPortfolios

Spec == Init /\ [][Next]_vars

----------------------------------------------------------------------------
(* The share operations on every access list, with every combination of   *)
(* their arguments.  The registry starts after                             *)
(* create_portfolio("dn1", None, "prov", None, "tok") and the grants that  *)
(* build the access list.                                                  *)

ShareAccounts == {AccountId(i) : i \in 1..MaxAccounts}

\* the lists create_portfolio_share can build: no account twice
AccessLists ==
    {lst \in UNION {[1..n -> ShareAccounts] : n \in 0..MaxAccounts} :
        \A i, j \in 1..Len(lst) : lst[i] = lst[j] => i = j}

FirstPortfolio == Portfolio(IdOf(1), "dn1", "", "prov", <<>>, 0)

InitShare ==
    /\ portfolios = <<FirstPortfolio>>
    /\ portfolio_access \in {[id \in {IdOf(1)} |-> lst] : lst \in AccessLists}
    /\ idempotency_tokens = [t \in {"tok"} |-> IdOf(1)]
    /\ issued = 1
    /\ clock = 1
    /\ call = [op |-> "__init__"]
    /\ result = Return(None)
    /\ first_response =
           [t \in {"tok"} |-> <<to_dict(FirstPortfolio), FirstPortfolio.tags>>]
    /\ walk = NoWalk
    /\ before = registry
    /\ callers = NoCallers

ShareAccountArgs == {None, Some("")} \cup {Some(a) : a \in ShareAccounts}

ShareIds == {IdOf(1), IdOf(2)}

DeletePortfolioShareAny ==
    \E portfolio_id \in ShareIds, account_id \in ShareAccountArgs,
       organization_node \in OrgNodeArgs :
        /\ delete_portfolio_share(portfolio_id, account_id, organization_node)
        /\ OneCallerRecorded

CreatePortfolioShareAny ==
    \E portfolio_id \in ShareIds, account_id \in ShareAccountArgs,
       organization_node \in OrgNodeArgs,
       share_tag_options \in BOOLEAN, share_principals \in BOOLEAN :
        /\ create_portfolio_share(portfolio_id, account_id, organization_node,
                                  share_tag_options, share_principals)
        /\ OneCallerRecorded

DeleteFirstPortfolio == delete_portfolio(IdOf(1)) /\ OneCallerRecorded

NextShare ==
    \/ CreatePortfolioShareAny
    \/ DeletePortfolioShareAny
    \/ DeleteFirstPortfolio

SpecShare == InitShare /\ [][NextShare]_vars

----------------------------------------------------------------------------
(* Paging through an access list of up to MaxGrants accounts, granted in   *)
(* ascending or in descending order of their ids.                          *)

Ascending(n) == [i \in 1..n |-> AccountId(i)]

Descending(n) == [i \in 1..n |-> AccountId(n + 1 - i)]

InitPaging ==
    /\ portfolios = <<FirstPortfolio>>
    /\ portfolio_access \in
           {[id \in {IdOf(1)} |-> lst] :
               lst \in {Ascending(n) : n \in 0..MaxGrants}
                          \cup {Descending(n) : n \in 0..MaxGrants}}
    /\ idempotency_tokens = [t \in {"tok"} |-> IdOf(1)]
    /\ issued = 1
    /\ clock = 1
    /\ call = [op |-> "__init__"]
    /\ result = Return(None)
    /\ first_response =
           [t \in {"tok"} |-> <<to_dict(FirstPortfolio), FirstPortfolio.tags>>]
    /\ walk = NoWalk
    /\ before = registry
    /\ callers = NoCallers

\* no token, the token the last page returned, or a token of some other page
PagingTokens ==
    {None, Some(AccountId(2))}
        \cup (IF call.op = "list_portfolio_access" THEN {result.value[2]}
              ELSE {})

PagingSizes == {None, Some(1), Some(7)}

ListPortfolioAccessPaged ==
    \E portfolio_id \in ShareIds, page_token \in PagingTokens,
       page_size \in PagingSizes :
        list_portfolio_access(portfolio_id, page_token, page_size) /\ OneCaller

NextPaging == ListPortfolioAccessPaged

SpecPaging == InitPaging /\ [][NextPaging]_vars

----------------------------------------------------------------------------
(* Two threads calling the same backend.  The code takes no lock, so a     *)
(* thread can be pre-empted between any two dict accesses: a step is one   *)
(* test of a dict, or the statements up to and including one dict write.   *)

Threads == {"A", "B"}

IdleFrame ==
    [pc |-> "idle", op |-> "", token |-> None, id |-> "", account |-> "",
     response |-> None, ret |-> Return(None)]

InitThreads ==
    /\ portfolios = <<>>
    /\ portfolio_access = <<>>
    /\ idempotency_tokens = <<>>
    /\ issued = 0
    /\ clock = 0
    /\ call = [op |-> "__init__"]
    /\ result = Return(None)
    /\ first_response = <<>>
    /\ walk = NoWalk
    /\ before = registry
    /\ callers = [frames |-> [t \in Threads |-> IdleFrame], granted |-> {}]

\* the frame of thread t
frame(t) == callers.frames[t]

\* thread t goes on with frame f
Goto(t, f) == callers' = [callers EXCEPT !.frames[t] = f]

\* what the threads do not touch
ThreadFrame == UNCHANGED <<call, result, first_response, walk, before>>

\* create_portfolio, line 125: the test of the token
CreateCheck(t, idempotency_token) ==
    /\ frame(t).pc = "idle"
    /\ Goto(t, [IdleFrame EXCEPT
                   !.pc = IF TokenSeen(idempotency_token)
                          THEN "create_lookup" ELSE "create_put",
                   !.op = "create_portfolio",
                   !.token = idempotency_token])
    /\ UNCHANGED <<registry, issued, clock>>
    /\ ThreadFrame

\* create_portfolio, lines 126-128: the replay
CreateLookup(t) ==
    /\ frame(t).pc = "create_lookup"
    /\ LET portfolio_id == idempotency_tokens[frame(t).token[1]] IN
       Goto(t, [frame(t) EXCEPT
                   !.pc = "idle",
                   !.ret = IF portfolio_id \in PortfolioIds(portfolios)
                           THEN LET portfolio ==
                                        PortfolioAt(portfolios, portfolio_id)
                                IN Return(<<to_dict(portfolio),
                                            portfolio.tags>>)
                           ELSE Raise("KeyError")])
    /\ UNCHANGED <<registry, issued, clock>>
    /\ ThreadFrame

\* create_portfolio, lines 130-142: the new portfolio goes into the dict
CreatePut(t) ==
    /\ frame(t).pc = "create_put"
    /\ issued < MaxPortfolios
    /\ LET portfolio == Portfolio(uuid4, "dn1", OrStr(None, ""), "prov",
                                  OrList(None, <<>>), now)
       IN /\ portfolios' = PortfolioPut(portfolios, portfolio)
          /\ Goto(t, [frame(t) EXCEPT
                         !.pc = "create_token",
                         !.id = portfolio.id,
                         !.response = Some(<<to_dict(portfolio),
                                             portfolio.tags>>)])
    /\ issued' = issued + 1
    /\ clock' = clock + 1
    /\ UNCHANGED <<portfolio_access, idempotency_tokens>>
    /\ ThreadFrame

\* create_portfolio, lines 144-145: the token is recorded
CreateToken(t) ==
    /\ frame(t).pc = "create_token"
    /\ idempotency_tokens' =
           IF TruthyStr(frame(t).token)
           THEN DictSet(idempotency_tokens, frame(t).token[1], frame(t).id)
           ELSE idempotency_tokens
    /\ Goto(t, [frame(t) EXCEPT !.pc = "create_access"])
    /\ UNCHANGED <<portfolios, portfolio_access, issued, clock>>
    /\ ThreadFrame

\* create_portfolio, lines 147-149: the empty access list, and the return
CreateAccess(t) ==
    /\ frame(t).pc = "create_access"
    /\ portfolio_access' = DictSet(portfolio_access, frame(t).id, <<>>)
    /\ Goto(t, [frame(t) EXCEPT
                   !.pc = "idle", !.ret = Return(frame(t).response[1])])
    /\ UNCHANGED <<portfolios, idempotency_tokens, issued, clock>>
    /\ ThreadFrame

\* delete_portfolio, lines 88-89: the access list goes, and with it the
\* grants made so far
DeleteAccess(t, id) ==
    /\ frame(t).pc = "idle"
    /\ portfolio_access' =
           IF id \in DOMAIN portfolio_access
           THEN DictDel(portfolio_access, id)
           ELSE portfolio_access
    /\ callers' =
           [frames |-> [callers.frames EXCEPT
                           ![t] = [IdleFrame EXCEPT
                                      !.pc = "delete_entry",
                                      !.op = "delete_portfolio",
                                      !.id = id]],
            granted |-> {g \in callers.granted : g[1] # id}]
    /\ UNCHANGED <<portfolios, idempotency_tokens, issued, clock>>
    /\ ThreadFrame

\* delete_portfolio, lines 92-95: the portfolio goes
DeleteEntry(t) ==
    /\ frame(t).pc = "delete_entry"
    /\ portfolios' =
           IF frame(t).id \in PortfolioIds(portfolios)
           THEN PortfolioDel(portfolios, frame(t).id)
           ELSE portfolios
    /\ Goto(t, [frame(t) EXCEPT !.pc = "idle", !.ret = Return(None)])
    /\ UNCHANGED <<portfolio_access, idempotency_tokens, issued, clock>>
    /\ ThreadFrame

\* create_portfolio_share with an account_id, lines 160-161
ShareCheck(t, portfolio_id, account_id) ==
    /\ frame(t).pc = "idle"
    /\ Goto(t, [IdleFrame EXCEPT
                   !.pc = IF PortfolioKnown(portfolio_id)
                          THEN "share_ensure" ELSE "idle",
                   !.op = "create_portfolio_share",
                   !.id = portfolio_id,
                   !.account = account_id])
    /\ UNCHANGED <<registry, issued, clock>>
    /\ ThreadFrame

\* create_portfolio_share, lines 165-166
ShareEnsure(t) ==
    /\ frame(t).pc = "share_ensure"
    /\ portfolio_access' =
           IF frame(t).id \notin DOMAIN portfolio_access
           THEN DictSet(portfolio_access, frame(t).id, <<>>)
           ELSE portfolio_access
    /\ Goto(t, [frame(t) EXCEPT !.pc = "share_append"])
    /\ UNCHANGED <<portfolios, idempotency_tokens, issued, clock>>
    /\ ThreadFrame

\* create_portfolio_share, lines 168-171: the subscript of line 168 raises
\* KeyError when the list was deleted in the meantime
ShareAppend(t) ==
    /\ frame(t).pc = "share_append"
    /\ IF frame(t).id \notin DOMAIN portfolio_access
       THEN /\ Goto(t, [frame(t) EXCEPT
                           !.pc = "idle", !.ret = Raise("KeyError")])
            /\ UNCHANGED portfolio_access
       ELSE /\ portfolio_access' =
                   IF ~InList(frame(t).account, portfolio_access[frame(t).id])
                   THEN DictSet(portfolio_access, frame(t).id,
                                Append(portfolio_access[frame(t).id],
                                       frame(t).account))
                   ELSE portfolio_access
            /\ callers' =
                   [frames |-> [callers.frames EXCEPT
                                   ![t] = [frame(t) EXCEPT
                                              !.pc = "idle",
                                              !.ret = Return(None)]],
                    granted |-> callers.granted
                                   \cup {<<frame(t).id, frame(t).account>>}]
    /\ UNCHANGED <<portfolios, idempotency_tokens, issued, clock>>
    /\ ThreadFrame

NextThreads ==
    \/ \E t \in Threads, idempotency_token \in {None, Some("tok")} :
           CreateCheck(t, idempotency_token)
    \/ \E t \in Threads : CreateLookup(t)
    \/ \E t \in Threads : CreatePut(t)
    \/ \E t \in Threads : CreateToken(t)
    \/ \E t \in Threads : CreateAccess(t)
    \/ \E t \in Threads, id \in Ids : DeleteAccess(t, id)
    \/ \E t \in Threads : DeleteEntry(t)
    \/ \E t \in Threads, portfolio_id \in Ids :
           ShareCheck(t, portfolio_id, "111111111111")
    \/ \E t \in Threads : ShareEnsure(t)
    \/ \E t \in Threads : ShareAppend(t)

SpecThreads == InitThreads /\ [][NextThreads]_vars

----------------------------------------------------------------------------
(* Properties *)

\* the call that ended in the current state
Called(op) == call.op = op

\* node.get(key, ""), spelled out for the properties
Field(node, key) == IF key \in DOMAIN node THEN node[key] ELSE ""

\* share-<portfolioId>-<Type>-<Value>
ShareString(portfolio_id, node) ==
    "share-" \o portfolio_id \o "-" \o Field(node, "Type") \o "-"
        \o Field(node, "Value")

\* lst without x, the other elements in their order
Without(lst, x) == LET other(y) == y # x IN SelectSeq(lst, other)

\* C1: a create_portfolio call with a non-empty idempotency token that an
\* earlier call recorded returns what that earlier call returned: the same
\* portfolio id and an identical summary, whatever ran in between.
C1_SameTokenSameResponse ==
    (/\ Called("create_portfolio")
     /\ TruthyStr(call.idempotency_token)
     /\ call.idempotency_token[1] \in DOMAIN first_response)
        => /\ result.status = "return"
           /\ result.value = first_response[call.idempotency_token[1]]

\* C2: no operation fails: every call returns normally and raises no error.
C2_NoOperationFails == result.status = "return"

\* C3: a create_portfolio call whose idempotency token was seen before
\* leaves the portfolio map, every access list and the token map as they
\* were, whatever its other arguments are.
C3_SeenTokenCreatesNothing ==
    [][(/\ call'.op = "create_portfolio"
        /\ TruthyStr(call'.idempotency_token)
        /\ call'.idempotency_token[1] \in DOMAIN idempotency_tokens)
           => UNCHANGED registry]_vars

\* a replayed create_portfolio whose display name is not the original's
C3_Witness ==
    /\ Called("create_portfolio")
    /\ TruthyStr(call.idempotency_token)
    /\ call.idempotency_token[1] \in DOMAIN idempotency_tokens
    /\ result.status = "return"
    /\ result.value[1].DisplayName # call.display_name
    /\ Len(portfolios) = 1

\* C4: every live portfolio has an access-list entry, possibly empty.
C4_LivePortfolioHasAccessList ==
    \A id \in PortfolioIds(portfolios) : id \in DOMAIN portfolio_access

\* a delete_portfolio that left another portfolio live, its list empty
C4_Witness ==
    /\ Called("delete_portfolio")
    /\ issued = 2
    /\ Len(portfolios) = 1
    /\ portfolio_access[portfolios[1].id] = <<>>

\* C5: delete_portfolio does not fail; with an id that is not live it leaves
\* the three maps unchanged (so a second delete of the same id changes
\* nothing); with a live id it removes that portfolio and its access list
\* and nothing else.
C5_DeletePortfolio ==
    [][call'.op = "delete_portfolio" =>
          LET id == call'.id IN
          /\ result'.status = "return"
          /\ idempotency_tokens' = idempotency_tokens
          /\ IF id \notin PortfolioIds(portfolios)
             THEN UNCHANGED registry
             ELSE /\ portfolios' =
                         LET other(p) == p.id # id
                         IN SelectSeq(portfolios, other)
                  /\ DOMAIN portfolio_access' = DOMAIN portfolio_access \ {id}
                  /\ \A p \in DOMAIN portfolio_access' :
                         portfolio_access'[p] = portfolio_access[p]]_vars

\* the second portfolio was deleted, the first one is live with its grants
C5_Witness ==
    /\ Called("delete_portfolio")
    /\ call.id = IdOf(2)
    /\ issued = 2
    /\ PortfolioIds(portfolios) = {IdOf(1)}
    /\ Len(portfolio_access[IdOf(1)]) = 2
    /\ DOMAIN idempotency_tokens # {}

\* C6: no access list contains the same account id twice.
C6_NoDuplicateAccess ==
    \A id \in DOMAIN portfolio_access :
        \A i, j \in 1..Len(portfolio_access[id]) :
            portfolio_access[id][i] = portfolio_access[id][j] => i = j

\* a grant of an account that is in the list and not the last of it: the
\* account was there before the call
C6_Witness ==
    /\ Called("create_portfolio_share")
    /\ TruthyStr(call.account_id)
    /\ call.portfolio_id \in DOMAIN portfolio_access
    /\ Len(portfolio_access[call.portfolio_id]) = 2
    /\ portfolio_access[call.portfolio_id][1] = call.account_id[1]

\* C7: create_portfolio_share with a portfolio id that is not live returns
\* no token and leaves the portfolio map, every access list and the token
\* map unchanged, for every combination of its other arguments.
C7_ShareUnknownPortfolio ==
    [][(/\ call'.op = "create_portfolio_share"
        /\ call'.portfolio_id \notin PortfolioIds(portfolios))
           => /\ result' = Return(None)
              /\ UNCHANGED registry]_vars

\* a share of an unknown portfolio with an account, a node and both flags
C7_Witness ==
    /\ Called("create_portfolio_share")
    /\ call.portfolio_id \notin PortfolioIds(portfolios)
    /\ TruthyStr(call.account_id)
    /\ TruthyDict(call.organization_node)
    /\ call.share_tag_options
    /\ call.share_principals
    /\ result = Return(None)
    /\ portfolios # <<>>

\* what C8 says create_portfolio_share returns for a live portfolio, and that
\* it changes no state without an account; Account(a) and Node(n) say when
\* an account_id and an organization_node count as given
CreateShareContract(Account(_), Node(_)) ==
    (/\ call'.op = "create_portfolio_share"
     /\ call'.portfolio_id \in PortfolioIds(portfolios))
        => IF Account(call'.account_id)
           THEN result' = Return(None)
           ELSE /\ UNCHANGED registry
                /\ result' =
                       Return(IF Node(call'.organization_node)
                              THEN Some(ShareString(call'.portfolio_id,
                                                    call'.organization_node[1])
                                        \o (IF call'.share_tag_options
                                            THEN "-tags" ELSE "")
                                        \o (IF call'.share_principals
                                            THEN "-principals" ELSE ""))
                              ELSE None)

Present(opt) == opt # None

\* C8 as stated: for a live portfolio create_portfolio_share returns no
\* token when an account_id is given; otherwise, when an organization_node
\* is given, share-<portfolioId>-<Type>-<Value> followed by -tags iff
\* share_tag_options and then -principals iff share_principals; None when
\* neither is given; without an account no state is changed.
C8_AsStated == [][CreateShareContract(Present, Present)]_vars

\* C8 amended: the same, where an empty account_id ("") and an empty
\* organization_node ({}) count as not given.
C8_ShareTokenNonEmpty == [][CreateShareContract(TruthyStr, TruthyDict)]_vars

\* a share of a live portfolio by organization node with both flags set
C8_Witness ==
    /\ Called("create_portfolio_share")
    /\ call.portfolio_id \in PortfolioIds(portfolios)
    /\ call.account_id = None
    /\ call.organization_node = Some(OrgNode)
    /\ call.share_tag_options
    /\ call.share_principals
    /\ result.value = Some("share-p1-ORGANIZATION-o-1-tags-principals")

\* what C9 says of delete_portfolio_share: the token it returns, and that it
\* only takes the account out of that portfolio's list, the others in order
DeleteShareContract(Node(_)) ==
    call'.op = "delete_portfolio_share" =>
        LET id == call'.portfolio_id IN
        /\ result' =
               Return(IF Node(call'.organization_node)
                      THEN Some(ShareString(id, call'.organization_node[1]))
                      ELSE None)
        /\ portfolios' = portfolios
        /\ idempotency_tokens' = idempotency_tokens
        /\ DOMAIN portfolio_access' = DOMAIN portfolio_access
        /\ \A p \in DOMAIN portfolio_access :
               portfolio_access'[p] =
                   IF p = id /\ call'.account_id # None
                   THEN Without(portfolio_access[p], call'.account_id[1])
                   ELSE portfolio_access[p]

\* C9 as stated: delete_portfolio_share returns share-<portfolioId>-<Type>-
\* <Value> exactly when an organization_node is given and None otherwise;
\* its only state change is removing the account from that portfolio's
\* access list, the remaining accounts keeping their order.
C9_AsStated == [][DeleteShareContract(Present)]_vars

\* C9 amended: the same, where an empty organization_node ({}) counts as
\* not given.
C9_DeleteShareNonEmptyNode == [][DeleteShareContract(TruthyDict)]_vars

\* the middle one of three accounts was revoked, with a node: the two others
\* remain in their order and the token is returned
C9_Witness ==
    /\ Called("delete_portfolio_share")
    /\ call.portfolio_id = IdOf(1)
    /\ call.account_id = Some(AccountId(2))
    /\ call.organization_node = Some(OrgNode)
    /\ IdOf(1) \in DOMAIN portfolio_access
    /\ portfolio_access[IdOf(1)] = <<AccountId(3), AccountId(1)>>
    /\ result.value = Some("share-p1-ORGANIZATION-o-1")

\* the accounts of a sequence of records
AccountsOf(records) == [i \in 1..Len(records) |-> records[i].account_id]

\* C10: list_portfolio_access returns the access list as paginated records
\* in grant order: a page has at most page_size records (20 without a
\* page_size); the pages from the first one along the returned next-tokens,
\* with no mutation in between, add up to the access list in grant order,
\* each account once; a next-token is returned iff records remain; an
\* unknown portfolio gives an empty page and no next-token.
C10_PagedInGrantOrder ==
    Called("list_portfolio_access") =>
        LET granted == DictGet(portfolio_access, call.portfolio_id, <<>>)
            page == result.value[1]
            next_token == result.value[2]
            limit == IF call.page_size = None THEN 20 ELSE call.page_size[1]
        IN
        /\ result.status = "return"
        /\ Len(page) <= limit
        /\ call.portfolio_id \notin PortfolioIds(portfolios)
               => page = <<>> /\ next_token = None
        /\ walk.active =>
               /\ Len(walk.records) <= Len(granted)
               /\ AccountsOf(walk.records)
                      = SubSeq(granted, 1, Len(walk.records))
               /\ next_token # None <=> Len(walk.records) < Len(granted)
               /\ Len(page) < limit => next_token = None

\* a walk over more than 20 accounts granted in descending order, without a
\* page_size: the second page ended it
C10_Witness ==
    /\ Called("list_portfolio_access")
    /\ call.page_size = None
    /\ call.page_token # None
    /\ walk.active
    /\ result.value[2] = None
    /\ Len(walk.records) > 20
    /\ walk.records[1].account_id = AccountId(Len(walk.records))
    /\ AccountsOf(walk.records) = portfolio_access[IdOf(1)]

\* C11: list_portfolios, for every page_token and page_size, returns the
\* summary of every live portfolio exactly once, in creation order, no
\* deleted portfolio, no next-token, and changes no state.
C11_ListPortfolios ==
    [][call'.op = "list_portfolios" =>
          LET summaries == result'.value[1]
              listed(i) == PortfolioAt(portfolios, summaries[i].Id)
          IN
          /\ UNCHANGED <<registry, issued, clock>>
          /\ result'.status = "return"
          /\ result'.value[2] = None
          /\ Len(summaries) = Cardinality(PortfolioIds(portfolios))
          /\ {summaries[i].Id : i \in 1..Len(summaries)}
                 = PortfolioIds(portfolios)
          /\ \A i \in 1..Len(summaries) : summaries[i] = to_dict(listed(i))
          /\ \A i, j \in 1..Len(summaries) :
                 i < j => listed(i).created_time < listed(j).created_time]_vars

\* both portfolios listed, with a page_token and a page_size of 1
C11_Witness ==
    /\ Called("list_portfolios")
    /\ call.page_token # None
    /\ call.page_size = Some(1)
    /\ Len(result.value[1]) = 2
    /\ result.value[1][1].Id = IdOf(1)
    /\ result.value[1][2].Id = IdOf(2)

\* C12: a portfolio is immutable while it is live: a portfolio that a step
\* does not delete has the same id, display name, description, provider
\* name, creation time, tags and ARN after the step as before it.
C12_PortfolioImmutable ==
    [][portfolios' # portfolios =>
          \A i \in 1..Len(portfolios) :
              portfolios[i].id \in PortfolioIds(portfolios') =>
                  LET after == PortfolioAt(portfolios', portfolios[i].id) IN
                  /\ after = portfolios[i]
                  /\ arn(after) = arn(portfolios[i])]_vars

\* a replayed create_portfolio with other tags than the recorded portfolio
\* has, the second of two live portfolios
C12_Witness ==
    /\ Called("create_portfolio")
    /\ TruthyStr(call.idempotency_token)
    /\ call.idempotency_token[1] \in DOMAIN idempotency_tokens
    /\ idempotency_tokens[call.idempotency_token[1]] = IdOf(2)
    /\ Len(portfolios) = 2
    /\ result.status = "return"
    /\ result.value[2] # OrList(call.tags, <<>>)

\* C13: a create_portfolio call with no token, an empty token or a token not
\* seen before adds exactly one portfolio, with the attributes of the call
\* and an id no live portfolio has, gives it an empty access list, records
\* token -> id only for a non-empty token, and leaves every other
\* portfolio, access list and token entry unchanged.
C13_FreshCreate ==
    [][(/\ call'.op = "create_portfolio"
        /\ ~(/\ TruthyStr(call'.idempotency_token)
             /\ call'.idempotency_token[1] \in DOMAIN idempotency_tokens))
           => /\ Len(portfolios') = Len(portfolios) + 1
              /\ SubSeq(portfolios', 1, Len(portfolios)) = portfolios
              /\ LET new == portfolios'[Len(portfolios')] IN
                 /\ new.id \notin PortfolioIds(portfolios)
                 /\ new.id \notin DOMAIN portfolio_access
                 /\ new.display_name = call'.display_name
                 /\ new.description = OrStr(call'.description, "")
                 /\ new.provider_name = call'.provider_name
                 /\ new.tags = OrList(call'.tags, <<>>)
                 /\ result' = Return(<<to_dict(new), new.tags>>)
                 /\ DOMAIN portfolio_access'
                        = DOMAIN portfolio_access \cup {new.id}
                 /\ portfolio_access'[new.id] = <<>>
                 /\ \A p \in DOMAIN portfolio_access :
                        portfolio_access'[p] = portfolio_access[p]
                 /\ idempotency_tokens' =
                        IF call'.idempotency_token \in {None, Some("")}
                        THEN idempotency_tokens
                        ELSE [t \in DOMAIN idempotency_tokens
                                      \cup {call'.idempotency_token[1]} |->
                                 IF t = call'.idempotency_token[1] THEN new.id
                                 ELSE idempotency_tokens[t]]]_vars

\* two calls without a token and with the same attributes: two portfolios
C13_Witness ==
    /\ Called("create_portfolio")
    /\ call.idempotency_token = None
    /\ Len(portfolios) = 2
    /\ portfolios[1].id # portfolios[2].id
    /\ portfolios[1].display_name = portfolios[2].display_name
    /\ portfolios[1].tags = portfolios[2].tags
    /\ idempotency_tokens = <<>>

\* C14: the token map only grows and never remaps: a step keeps every token
\* entry as it is, delete_portfolio included, and a new entry maps the token
\* to the portfolio the recording create_portfolio call created and
\* returned, which is live after that call.
C14_TokensOnlyGrow ==
    [][/\ \A t \in DOMAIN idempotency_tokens :
            /\ t \in DOMAIN idempotency_tokens'
            /\ idempotency_tokens'[t] = idempotency_tokens[t]
       /\ \A t \in DOMAIN idempotency_tokens' \ DOMAIN idempotency_tokens :
            /\ call'.op = "create_portfolio"
            /\ call'.idempotency_token = Some(t)
            /\ result'.status = "return"
            /\ result'.value[1].Id = idempotency_tokens'[t]
            /\ idempotency_tokens'[t] \in PortfolioIds(portfolios')
            /\ idempotency_tokens'[t] \notin PortfolioIds(portfolios)]_vars

\* the portfolio of a recorded token was deleted, the entry is still there
C14_Witness ==
    /\ Called("delete_portfolio")
    /\ DOMAIN idempotency_tokens = {"tok"}
    /\ idempotency_tokens["tok"] = call.id
    /\ call.id \notin PortfolioIds(portfolios)
    /\ portfolios # <<>>

\* C15: no orphan access lists: the access-list map and the portfolio map
\* have the same key set in every reachable state.
C15_NoOrphanAccessList == DOMAIN portfolio_access = PortfolioIds(portfolios)

\* a grant and a revocation aimed at a deleted portfolio, another one live
C15_Witness ==
    /\ call.op \in {"create_portfolio_share", "delete_portfolio_share"}
    /\ TruthyStr(call.account_id)
    /\ call.portfolio_id = IdOf(1)
    /\ issued = 2
    /\ PortfolioIds(portfolios) = {IdOf(2)}
    /\ portfolio_access[IdOf(2)] # <<>>

\* C16: granting then revoking is a round trip: for a live portfolio and an
\* account that is not in its access list, create_portfolio_share(account)
\* followed by delete_portfolio_share(account) leaves the three dicts as
\* they were before the two calls, the other accounts in their order.
C16_GrantRevokeRoundTrip ==
    [][(/\ call.op = "create_portfolio_share"
        /\ call'.op = "delete_portfolio_share"
        /\ call'.portfolio_id = call.portfolio_id
        /\ call'.account_id = call.account_id
        /\ TruthyStr(call.account_id)
        /\ call.portfolio_id \in PortfolioIds(before[1])
        /\ ~InList(call.account_id[1], before[2][call.portfolio_id]))
           => registry' = before]_vars

\* the third account was granted after two others and revoked again: the
\* grant is what the revocation found, the two others are in their order
C16_Witness ==
    /\ Called("delete_portfolio_share")
    /\ call.portfolio_id = IdOf(1)
    /\ call.account_id = Some(AccountId(1))
    /\ IdOf(1) \in DOMAIN portfolio_access
    /\ portfolio_access[IdOf(1)] = <<AccountId(3), AccountId(2)>>
    /\ before[2][IdOf(1)] = <<AccountId(3), AccountId(2), AccountId(1)>>

\* a grant that create_portfolio_share completed and no delete_portfolio
\* took away is not in the access list of its live portfolio
LostGrant ==
    \E g \in callers.granted :
        /\ g[1] \in PortfolioIds(portfolios)
        /\ ~InList(g[2], DictGet(portfolio_access, g[1], <<>>))

NoLostGrant == ~LostGrant

\* C17: every operation is a single atomic mutation: with two callers
\* interleaved at the individual dict writes, there is no state in which a
\* portfolio is in the portfolio map without its access-list entry or an
\* access-list entry exists without its portfolio, and no account granted by
\* a completed create_portfolio_share is lost.
C17_AtomicOperations ==
    /\ \A id \in PortfolioIds(portfolios) : id \in DOMAIN portfolio_access
    /\ \A id \in DOMAIN portfolio_access : id \in PortfolioIds(portfolios)
    /\ NoLostGrant

\* C18: two create_portfolio calls with the same non-empty, previously
\* unseen idempotency token that run concurrently create one portfolio and
\* both return its id.
C18_ConcurrentRetryNoDuplicate ==
    \A t, u \in Threads :
        (/\ t # u
         /\ frame(t).pc = "idle" /\ frame(u).pc = "idle"
         /\ frame(t).op = "create_portfolio"
         /\ frame(u).op = "create_portfolio"
         /\ TruthyStr(frame(t).token)
         /\ frame(u).token = frame(t).token
         /\ frame(t).ret.status = "return"
         /\ frame(u).ret.status = "return")
            => /\ frame(t).ret.value[1].Id = frame(u).ret.value[1].Id
               /\ idempotency_tokens[frame(t).token[1]]
                      = frame(t).ret.value[1].Id

====
